---- MODULE Spec2Model ----
(***************************************************************************)
(* Model of src/op/app.py: a Streamlit page that keeps a list of option /  *)
(* micro-futures positions in the session, stores it in one JSON file and  *)
(* draws the profit-and-loss curves of two strategy buckets.               *)
(*                                                                         *)
(* One action is one run of the script caused by one user event.  The      *)
(* script is executed from top to bottom at every event, so an action is   *)
(* the handler of the event followed by the rest of the script (the edit   *)
(* selection and the sidebar).  What a run draws (the price sweep, the two  *)
(* curves, the Black-Scholes table) is local to the run and a function of  *)
(* the session it ends with: prices, a_profits, b_profits and bs_table.    *)
(*                                                                         *)
(* Encodings.  Strings of the source are written in ASCII:                 *)
(*   "A" / "B"          the strategies '策略 A' / '策略 B'                 *)
(*   "micro" / "option" the products '微台' / '選擇權'                     *)
(*   "call" / "put"     the option types '買權' / '賣權'                   *)
(*   "buy" / "sell"     the directions '買進' / '賣出'                     *)
(*   ""                 the empty string                                   *)
(* The columns 策略, 商品, 選擇權類型, 履約價, 方向, 口數, 成交價 are the  *)
(* fields strategy, product, opt_type, strike, direction, lots, entry.     *)
(* A value that is a number or None (or a number or "") is a tuple: <<>>   *)
(* is None (or ""), <<x>> is the number x.  Prices are whole index points, *)
(* the risk-free rate is in units of 0.001 (0.015 is 15).                  *)
(***************************************************************************)
EXTENDS Integers, Sequences, FiniteSets, TLC

VARIABLES
    phase,            \* "new" before the first run of the script, "ready" after
    fetched,          \* what get_tse_index_price returned at the first run
    tse_index_price,  \* st.session_state.tse_index_price
    center_price,     \* st.session_state.center_price
    positions,        \* st.session_state.positions: the rows, in order
    positions_index,  \* st.session_state.positions.index: the label of each row
    target_prices,    \* st.session_state.target_prices
    edit_index,       \* st.session_state._edit_index
    days_to_expiry,   \* st.session_state.days_to_expiry
    risk_free_rate,   \* st.session_state.risk_free_rate
    center_input,     \* st.session_state["simulation_center_price_input"]
    price_range,      \* the sidebar's PRICE_RANGE widget
    file,             \* the contents of positions_store.json
    msg,              \* the message the file buttons of the last run showed
    bs_call           \* a call of black_scholes_model: its arguments and result

vars == <<phase, fetched, tse_index_price, center_price, positions, target_prices,
          edit_index, days_to_expiry, risk_free_rate, center_input, price_range,
          file, msg, positions_index, bs_call>>

-----------------------------------------------------------------------------
(* Values *)

None == <<>>
Some(x) == <<x>>
Val(o) == o[1]
Blank == <<>>

Max(a, b) == IF a >= b THEN a ELSE b

\* Program constants.
MULTIPLIER_MICRO == 10
MULTIPLIER_OPTION == 50
PRICE_STEP == 100
DEFAULT_INDEX_PRICE == 10000
MIN_VALID_INDEX == 1000
DEFAULT_DAYS == 6
DEFAULT_RATE == 15
DEFAULT_RANGE == 1500
MIN_RANGE == 100
DEFAULT_VOLATILITY == 20

\* Bounds of the model.
MaxPositions == 2
MaxDrawn == 2

-----------------------------------------------------------------------------
(* The payoff of one position at one price. *)

\* the option's sell branch written like its buy branch
Mut_profit_for_row_at_price(row, price) ==
    LET multiplier == IF row.product = "micro" THEN MULTIPLIER_MICRO ELSE MULTIPLIER_OPTION
        strike == IF row.strike # Blank THEN Val(row.strike) ELSE 0
        intrinsic == IF row.opt_type = "call" THEN Max(0, price - strike)
                     ELSE IF row.opt_type = "put" THEN Max(0, strike - price)
                     ELSE 0
    IN  IF row.product = "micro"
        THEN IF row.direction = "buy"
             THEN (price - row.entry) * row.lots * multiplier
             ELSE (row.entry - price) * row.lots * multiplier
        ELSE (intrinsic - row.entry) * row.lots * multiplier

profit_for_row_at_price(row, price) ==
    LET prod == row.product
        direction == row.direction
        lots == row.lots
        \* the column is always a float (lines 217, 397, 517), never ""
        entry == row.entry
        multiplier == IF prod = "micro" THEN MULTIPLIER_MICRO ELSE MULTIPLIER_OPTION
    IN  IF prod = "micro"
        THEN IF direction = "buy"
             THEN (price - entry) * lots * multiplier
             ELSE (entry - price) * lots * multiplier
        ELSE LET strike == IF row.strike # Blank THEN Val(row.strike) ELSE 0
                 opt_type == row.opt_type
                 intrinsic == IF opt_type = "call" THEN Max(0, price - strike)
                              ELSE IF opt_type = "put" THEN Max(0, strike - price)
                              ELSE 0
             IN  IF direction = "buy"
                 THEN (intrinsic - entry) * lots * multiplier
                 ELSE (entry - intrinsic) * lots * multiplier

-----------------------------------------------------------------------------
(* black_scholes_model's intrinsic value.  The function clamps S and K to  *)
(* 1e-6 before it computes the intrinsic value, so its numbers are of the  *)
(* form w + m * 1e-6: the pair <<w, m>> with m in -1..1.                   *)

Micro(w) == <<w, 0>>
MSub(a, b) == <<a[1] - b[1], a[2] - b[2]>>
MNonNeg(a) == a[1] > 0 \/ (a[1] = 0 /\ a[2] >= 0)
MMax0(a) == IF MNonNeg(a) THEN a ELSE Micro(0)
\* max(1e-6, x) for a whole number x
ClampPositive(x) == IF x >= 1 THEN Micro(x) ELSE <<0, 1>>

\* T_years <= 1e-6 or sigma <= 1e-6, with T_years = days / 365 and
\* sigma = volatility / 100 (src/op/app.py:591, 715)
bs_degenerate(days, volatility) == days * 1000000 <= 365 \/ volatility * 10000 <= 1

\* lines 144-184.  closed_form is the value lines 172 and 176 compute from
\* d1, d2 and the normal distribution (a float, here any number w + m * 1e-6);
\* the result is the triple the call returns, or raised when the call ends in
\* an exception: with an option_type that is neither call nor put, line 182
\* reads the local variable intrinsic, which no branch has assigned.
black_scholes_model(S, K, days, volatility, option_type, closed_form) ==
    IF bs_degenerate(days, volatility)
    THEN LET intrinsic == IF option_type = "call" THEN Micro(Max(0, S - K))
                          ELSE IF option_type = "put" THEN Micro(Max(0, K - S))
                          ELSE Micro(0)
         IN  [raised |-> FALSE, price |-> intrinsic, intrinsic |-> intrinsic,
              time_value |-> Micro(0)]
    ELSE IF option_type \notin {"call", "put"}
    THEN [raised |-> TRUE]
    ELSE LET S1 == ClampPositive(S)
             K1 == ClampPositive(K)
             price == MMax0(closed_form)
             intrinsic == IF option_type = "call" THEN MMax0(MSub(S1, K1))
                          ELSE MMax0(MSub(K1, S1))
         IN  [raised |-> FALSE, price |-> price, intrinsic |-> intrinsic,
              time_value |-> MMax0(MSub(price, intrinsic))]

\* the intrinsic value of the call, whatever the closed form's value is
bs_intrinsic(S, K, days, volatility, option_type) ==
    black_scholes_model(S, K, days, volatility, option_type, Micro(0)).intrinsic

-----------------------------------------------------------------------------
(* The price sweep. *)

\* np.arange(-PRICE_RANGE, PRICE_RANGE + 1e-6, PRICE_STEP): the values
\* -PRICE_RANGE + i * PRICE_STEP, i = 0, 1, ..., below PRICE_RANGE + 1e-6.
offsets_of(range) ==
    LET n == ((2 * range) \div PRICE_STEP) + 1
    IN  [i \in 1..n |-> (i - 1) * PRICE_STEP - range]

prices_of(center, range) ==
    LET offsets == offsets_of(range)
    IN  [i \in 1..Len(offsets) |-> center + offsets[i]]

-----------------------------------------------------------------------------
(* The stored file.  Its contents are one of                               *)
(*   [kind |-> "absent"]   no file                                         *)
(*   [kind |-> "corrupt"]  a file json.load cannot read                    *)
(*   [kind |-> "other"]    JSON that is neither a list nor a dict          *)
(*   [kind |-> "list", positions |-> rows]           the legacy format     *)
(*   [kind |-> "dict", ...keys of the JSON object]   the current format    *)
(* A JSON object is a record that has exactly the keys the object has.     *)
(* The rows of one file all have the same keys.                            *)

NoData == <<None, None, None, None>>

\* dict.get(key, default)
get(data, key, default) == IF key \in DOMAIN data THEN data[key] ELSE default

\* an empty strike read as 0.0
Mut_norm_strike(v) == IF v = Blank THEN Some(0) ELSE Some(Val(v))

norm_strike(v) == IF v = Blank THEN Blank ELSE Some(Val(v))

\* pd.DataFrame(rows) followed by lines 208-223: None when astype raises
frame_of(rows) ==
    LET columns == UNION {DOMAIN rows[i] : i \in 1..Len(rows)}
    IN  IF Len(rows) > 0 /\ ~({"lots", "entry"} \subseteq columns)
        THEN None
        ELSE Some([i \in 1..Len(rows) |->
                    [strategy  |-> get(rows[i], "strategy", ""),
                     product   |-> get(rows[i], "product", ""),
                     opt_type  |-> get(rows[i], "opt_type", ""),
                     strike    |-> norm_strike(get(rows[i], "strike", Blank)),
                     direction |-> get(rows[i], "direction", ""),
                     lots      |-> rows[i].lots,
                     entry     |-> rows[i].entry]])

\* a missing file read as an empty legacy list
Mut_load_positions(f) ==
    IF f.kind = "absent"
    THEN <<Some(<<>>), None, Some(DEFAULT_DAYS), Some(DEFAULT_RATE)>>
    ELSE IF f.kind = "list" /\ frame_of(f.positions) # None
    THEN <<frame_of(f.positions), None, Some(DEFAULT_DAYS), Some(DEFAULT_RATE)>>
    ELSE IF f.kind = "dict" /\ "positions" \in DOMAIN f /\ frame_of(f.positions) # None
    THEN <<frame_of(f.positions), get(f, "center_price", None),
           Some(get(f, "days_to_expiry", DEFAULT_DAYS)),
           Some(get(f, "risk_free_rate", DEFAULT_RATE))>>
    ELSE NoData

load_positions(f) ==
    IF f.kind = "absent" THEN NoData
    ELSE IF f.kind = "corrupt" THEN NoData
    ELSE IF f.kind = "list"
         THEN LET df == frame_of(f.positions)
              IN  IF df = None THEN NoData
                  ELSE <<df, None, Some(DEFAULT_DAYS), Some(DEFAULT_RATE)>>
    ELSE IF f.kind = "dict" /\ "positions" \in DOMAIN f
         THEN LET df == frame_of(f.positions)
              IN  IF df = None THEN NoData
                  ELSE <<df,
                         get(f, "center_price", None),
                         Some(get(f, "days_to_expiry", DEFAULT_DAYS)),
                         Some(get(f, "risk_free_rate", DEFAULT_RATE))>>
    ELSE NoData

\* the file save_positions writes when the write succeeds
save_positions(df, center, days, rate) ==
    [kind |-> "dict",
     center_price |-> center,
     days_to_expiry |-> days,
     risk_free_rate |-> rate,
     positions |-> df]

-----------------------------------------------------------------------------
(* The live index price. *)

\* info is the quote: [error |-> TRUE] when the request raises, otherwise a
\* record of the keys the quote has.
get_tse_index_price(info) ==
    IF "error" \in DOMAIN info THEN None
    ELSE LET p0 == get(info, "regularMarketPrice", None)
             price == IF p0 = None \/ p0 = Some(0)
                      THEN get(info, "regularMarketPreviousClose", None)
                      ELSE p0
         IN  IF price # None /\ Val(price) # 0 /\ Val(price) > MIN_VALID_INDEX
             THEN price
             ELSE None

-----------------------------------------------------------------------------
(* Inputs of the model: what the user types and what the environment holds. *)

Row(s, p, o, k, d, l, e) ==
    [strategy |-> s, product |-> p, opt_type |-> o, strike |-> k,
     direction |-> d, lots |-> l, entry |-> e]

\* the forms: a micro row has no option type and no strike (lines 383-388, 503-511)
MicroA == Row("A", "micro", "", Blank, "buy", 1, 9900)
CallB == Row("B", "option", "call", Some(10000), "sell", 1, 50)
AddRows == {MicroA, CallB}
EditRows == {CallB}

\* rows the add form can hold: a strike >= 0 (line 351), lots >= 1 (line 365),
\* an entry price >= 0 (line 374)
FormRows ==
    {Row("A", "micro", "", Blank, "buy", 2, 9900),
     Row("B", "micro", "", Blank, "sell", 2, 9900),
     Row("A", "option", "call", Some(10000), "sell", 2, 50),
     Row("B", "option", "call", Some(10000), "buy", 2, 50),
     Row("A", "option", "put", Some(10000), "buy", 2, 50),
     Row("B", "option", "put", Some(10000), "sell", 2, 50),
     Row("A", "option", "call", Some(0), "buy", 2, 50),
     Row("B", "option", "put", Some(0), "sell", 2, 50)}
\* the edit form also takes a negative strike (line 508)
EditFormRows == FormRows \cup {Row("A", "option", "call", Some(-100), "buy", 2, 50)}

CenterInputs == {9950}
RangeInputs == {120}
BSInputs == {<<7, 20>>}
TargetInputs == {10100}

QuoteInputs ==
    {[error |-> TRUE],
     [regularMarketPrice |-> Some(17000), regularMarketPreviousClose |-> Some(16900)],
     [regularMarketPrice |-> Some(0), regularMarketPreviousClose |-> Some(17000)],
     [regularMarketPreviousClose |-> Some(17000)],
     [regularMarketPrice |-> Some(0)],
     [regularMarketPrice |-> Some(1000), regularMarketPreviousClose |-> Some(17000)],
     [regularMarketPrice |-> None, regularMarketPreviousClose |-> Some(900)]}

\* what the file holds when the session starts
LegacyRows == <<[strategy |-> "A", product |-> "micro", direction |-> "sell",
                 lots |-> 1, entry |-> 9800]>>
FileInputs ==
    {[kind |-> "absent"],
     [kind |-> "corrupt"],
     [kind |-> "other"],
     [kind |-> "dict", center_price |-> Some(9950)],
     [kind |-> "list", positions |-> <<[strategy |-> "A", product |-> "micro"]>>],
     [kind |-> "list", positions |-> LegacyRows],
     [kind |-> "dict", positions |-> <<CallB>>, days_to_expiry |-> 7,
      risk_free_rate |-> 20],
     [kind |-> "dict", positions |-> <<CallB>>, center_price |-> None,
      days_to_expiry |-> 7, risk_free_rate |-> 20]}

-----------------------------------------------------------------------------
(* The rest of the script after the handlers: lines 406-905. *)

RECURSIVE SumSeq(_)
SumSeq(s) == IF s = <<>> THEN 0 ELSE Head(s) + SumSeq(Tail(s))

\* the filter keeps every row
Mut_bucket(df, name) == df

\* positions_df[positions_df["策略"] == name]
bucket(df, name) == SelectSeq(df, LAMBDA r : r.strategy = name)

\* df.apply(lambda r: profit_for_row_at_price(r, p), axis=1).sum()
bucket_profit(df, name, p) ==
    LET rows == bucket(df, name)
    IN  SumSeq([i \in 1..Len(rows) |-> profit_for_row_at_price(rows[i], p)])

curve(df, name, sweep) == [i \in 1..Len(sweep) |-> bucket_profit(df, name, sweep[i])]

\* lines 703-728: one black_scholes_model call per option row
bs_rows(df, center, days) ==
    LET opt == SelectSeq(df, LAMBDA r : r.product = "option")
    IN  [i \in 1..Len(opt) |->
           bs_intrinsic(center, Val(opt[i].strike), days, DEFAULT_VOLATILITY,
                        opt[i].opt_type)]

\* The run ends with the session holding df, center, index, days and rate;
\* shown and range are the values the center and range widgets return.
Finish(df, center, index, days, rate, shown, range) ==
    /\ positions' = df
    /\ center_price' = center
    /\ days_to_expiry' = days
    /\ risk_free_rate' = rate
    /\ edit_index' = IF df # <<>> /\ index = -1 THEN 0 ELSE index
    /\ IF df = <<>>
       THEN /\ center_input' = None
            /\ price_range' = DEFAULT_RANGE
       ELSE /\ center_input' = shown
            /\ price_range' = range

\* What the run draws when the list is not empty (lines 533-905).
prices == IF positions = <<>> THEN <<>> ELSE prices_of(Val(center_input), price_range)
a_profits == curve(positions, "A", prices)
b_profits == curve(positions, "B", prices)
bs_table ==
    IF positions = <<>> THEN <<>>
    ELSE bs_rows(positions, Val(center_input), days_to_expiry)

\* the value the center widget returns when the session's center is center
\* and the user does not touch it: a widget that was not drawn in the last
\* run is created with value=center
Shown(center) == IF center_input = None THEN center ELSE center_input

\* the index of a frame built from n records, or by ignore_index=True
RangeIndex(n) == [k \in 1..n |-> k - 1]

\* the labels are kept as they are
Mut_reset_index(labels) == labels

\* reset_index(drop=True)
reset_index(labels) == RangeIndex(Len(labels))

-----------------------------------------------------------------------------
(* The session. *)

\* lines 247-263, before the index price is fetched
NewSession ==
    /\ phase = "new"
    /\ fetched = None
    /\ tse_index_price = None
    /\ center_price = None
    /\ positions = <<>>
    /\ positions_index = <<>>
    /\ target_prices = <<>>
    /\ edit_index = -1
    /\ days_to_expiry = DEFAULT_DAYS
    /\ risk_free_rate = DEFAULT_RATE
    /\ center_input = None
    /\ price_range = DEFAULT_RANGE
    /\ msg = ""

\* no call of black_scholes_model is followed
NoCall == [args |-> <<>>, result |-> <<>>]

Init ==
    /\ NewSession
    /\ file \in FileInputs
    /\ bs_call = NoCall

\* no fallback when the quote is missing
Mut_index_or_default(tse_price) == tse_price

\* lines 266-276: the first run of the script
index_or_default(tse_price) ==
    IF tse_price # None /\ Val(tse_price) > MIN_VALID_INDEX
    THEN tse_price
    ELSE Some(DEFAULT_INDEX_PRICE)

FirstRun(info) ==
    /\ phase = "new"
    /\ phase' = "ready"
    /\ fetched' = get_tse_index_price(info)
    /\ tse_index_price' = index_or_default(get_tse_index_price(info))
    /\ msg' = IF index_or_default(get_tse_index_price(info)) = get_tse_index_price(info)
              THEN "index_ok" ELSE "index_fallback"
    /\ Finish(positions, index_or_default(get_tse_index_price(info)), edit_index,
              days_to_expiry, risk_free_rate, None, price_range)
    /\ UNCHANGED <<target_prices, file, bs_call, positions_index>>

\* lines 288-300.  When the load changes the session's center price and BS
\* parameters while the sidebar is on the page, the sidebar widgets (lines
\* 538-579) are given a new value= argument: a widget then either starts
\* again from that value or keeps the value it had, and lines 567 and 579
\* write the widgets' values back to the session.
LoadButton ==
    /\ phase = "ready"
    /\ LET res == load_positions(file)
           df == res[1]
           loaded_center == res[2]
           loaded_t == res[3]
           loaded_r == res[4]
       IN  IF df # None
           THEN IF loaded_center # None
                THEN /\ msg' = "loaded_with_center"
                     /\ \E keeps \in BOOLEAN :
                          IF keeps /\ center_input # None
                          THEN Finish(Val(df), loaded_center, edit_index,
                                      days_to_expiry, risk_free_rate,
                                      center_input, price_range)
                          ELSE Finish(Val(df), loaded_center, edit_index,
                                      Val(loaded_t), Val(loaded_r),
                                      loaded_center, price_range)
                ELSE /\ msg' = "loaded_defaults"
                     /\ Finish(Val(df), center_price, edit_index, days_to_expiry,
                               risk_free_rate, Shown(center_price), price_range)
           ELSE /\ msg' = "not_found"
                /\ Finish(positions, center_price, edit_index, days_to_expiry,
                          risk_free_rate, Shown(center_price), price_range)
    /\ positions_index' = IF load_positions(file)[1] # None
                          THEN RangeIndex(Len(Val(load_positions(file)[1])))
                          ELSE positions_index
    /\ UNCHANGED <<phase, fetched, tse_index_price, target_prices, file, bs_call>>

\* lines 301-316.  written is whether the write succeeds; a write that fails
\* leaves the old file (open raised) or a truncated one (json.dump raised).
SaveButton(written, truncated) ==
    /\ phase = "ready"
    /\ IF positions # <<>>
       THEN LET current_center == center_input
                center_to_save == IF current_center # None THEN current_center
                                  ELSE center_price
            IN  IF written
                THEN /\ file' = save_positions(positions, center_to_save,
                                               days_to_expiry, risk_free_rate)
                     /\ msg' = "saved"
                     /\ Finish(positions, center_to_save, edit_index, days_to_expiry,
                               risk_free_rate, Shown(center_to_save), price_range)
                ELSE /\ file' = IF truncated THEN [kind |-> "corrupt"] ELSE file
                     /\ msg' = "nothing_to_save"
                     /\ Finish(positions, center_price, edit_index, days_to_expiry,
                               risk_free_rate, Shown(center_price), price_range)
       ELSE /\ file' = file
            /\ msg' = ""
            /\ Finish(positions, center_price, edit_index, days_to_expiry,
                      risk_free_rate, Shown(center_price), price_range)
    /\ UNCHANGED <<phase, fetched, tse_index_price, target_prices, bs_call,
                   positions_index>>

\* the clear button without lines 325-326
Mut_ClearButton ==
    /\ phase = "ready"
    /\ target_prices' = <<>>
    /\ msg' = "cleared"
    /\ Finish(<<>>, tse_index_price, -1, days_to_expiry, risk_free_rate, None,
              price_range)
    /\ positions_index' = <<>>
    /\ UNCHANGED <<phase, fetched, tse_index_price, file, bs_call>>

\* lines 317-327
ClearButton ==
    /\ phase = "ready"
    /\ target_prices' = <<>>
    /\ msg' = "cleared"
    /\ Finish(<<>>, tse_index_price, -1, DEFAULT_DAYS, DEFAULT_RATE, None, price_range)
    /\ positions_index' = <<>>
    /\ UNCHANGED <<phase, fetched, tse_index_price, file, bs_call>>

\* the new record is put before the rows of the list
Mut_AddPosition(rec) ==
    /\ phase = "ready"
    /\ msg' = ""
    /\ Finish(<<rec>> \o positions, center_price, edit_index, days_to_expiry,
              risk_free_rate, Shown(center_price), price_range)
    /\ positions_index' = RangeIndex(Len(positions) + 1)
    /\ UNCHANGED <<phase, fetched, tse_index_price, target_prices, file, bs_call>>

\* lines 378-401: the add form, then st.rerun()
AddPosition(rec) ==
    /\ phase = "ready"
    /\ msg' = ""
    /\ Finish(Append(positions, rec), center_price, edit_index, days_to_expiry,
              risk_free_rate, Shown(center_price), price_range)
    /\ positions_index' = RangeIndex(Len(positions) + 1)
    /\ UNCHANGED <<phase, fetched, tse_index_price, target_prices, file, bs_call>>

\* positions.drop(index).reset_index(drop=True)
drop(df, i) == [k \in 1..(Len(df) - 1) |-> IF k < i THEN df[k] ELSE df[k + 1]]

\* lines 448-451: the remove button of row i (index i - 1), then st.rerun()
RemovePosition(i) ==
    /\ phase = "ready"
    /\ i \in 1..Len(positions)
    /\ msg' = ""
    /\ Finish(drop(positions, i), center_price, edit_index, days_to_expiry,
              risk_free_rate, Shown(center_price), price_range)
    /\ positions_index' = reset_index(drop(positions_index, i))
    /\ UNCHANGED <<phase, fetched, tse_index_price, target_prices, file, bs_call>>

\* lines 482-484: load row i (index i - 1) into the edit form
SelectEdit(i) ==
    /\ phase = "ready"
    /\ i \in 1..Len(positions)
    /\ msg' = ""
    /\ Finish(positions, center_price, i - 1, days_to_expiry, risk_free_rate,
              Shown(center_price), price_range)
    /\ UNCHANGED <<phase, fetched, tse_index_price, target_prices, file, bs_call,
                   positions_index>>

\* lines 488-521: the edit form of row _edit_index, then st.rerun()
EditPosition(form) ==
    /\ phase = "ready"
    /\ edit_index + 1 \in 1..Len(positions)
    /\ msg' = ""
    /\ Finish([positions EXCEPT ![edit_index + 1] = form], center_price, -1,
              days_to_expiry, risk_free_rate, Shown(center_price), price_range)
    /\ UNCHANGED <<phase, fetched, tse_index_price, target_prices, file, bs_call,
                   positions_index>>

\* lines 538-579: the user changes one sidebar widget
SetCenter(c) ==
    /\ phase = "ready"
    /\ positions # <<>>
    /\ msg' = ""
    /\ Finish(positions, center_price, edit_index, days_to_expiry, risk_free_rate,
              Some(c), price_range)
    /\ UNCHANGED <<phase, fetched, tse_index_price, target_prices, file, bs_call,
                   positions_index>>

SetRange(r) ==
    /\ phase = "ready"
    /\ positions # <<>>
    /\ r >= MIN_RANGE
    /\ msg' = ""
    /\ Finish(positions, center_price, edit_index, days_to_expiry, risk_free_rate,
              Shown(center_price), r)
    /\ UNCHANGED <<phase, fetched, tse_index_price, target_prices, file, bs_call,
                   positions_index>>

\* lines 557-579: the days and rate widgets hold d and r in this run
SetBSParameters(d, r) ==
    /\ phase = "ready"
    /\ positions # <<>>
    /\ d >= 1
    /\ r >= 0
    /\ msg' = ""
    /\ Finish(positions, center_price, edit_index, d, r,
              Shown(center_price), price_range)
    /\ UNCHANGED <<phase, fetched, tse_index_price, target_prices, file, bs_call,
                   positions_index>>

\* target_prices.append(v); target_prices.sort(reverse=True)
RECURSIVE insert_desc(_, _)
insert_desc(s, v) ==
    IF s = <<>> THEN <<v>>
    ELSE IF v >= Head(s) THEN <<v>> \o s
    ELSE <<Head(s)>> \o insert_desc(Tail(s), v)

\* lines 823-828
AddTarget(v) ==
    /\ phase = "ready"
    /\ positions # <<>>
    /\ target_prices' = IF \E k \in 1..Len(target_prices) : target_prices[k] = v
                        THEN target_prices
                        ELSE insert_desc(target_prices, v)
    /\ msg' = ""
    /\ Finish(positions, center_price, edit_index, days_to_expiry, risk_free_rate,
              Shown(center_price), price_range)
    /\ UNCHANGED <<phase, fetched, tse_index_price, file, bs_call,
                   positions_index>>

\* lines 830-836
RemoveTarget(v) ==
    /\ phase = "ready"
    /\ positions # <<>>
    /\ \E k \in 1..Len(target_prices) : target_prices[k] = v
    /\ target_prices' = SelectSeq(target_prices, LAMBDA p : p # v)
    /\ msg' = ""
    /\ Finish(positions, center_price, edit_index, days_to_expiry, risk_free_rate,
              Shown(center_price), price_range)
    /\ UNCHANGED <<phase, fetched, tse_index_price, file, bs_call,
                   positions_index>>

Next ==
    \/ \E info \in QuoteInputs : FirstRun(info)
    \/ LoadButton
    \/ \E written \in BOOLEAN, truncated \in BOOLEAN : SaveButton(written, truncated)
    \/ ClearButton
    \/ \E rec \in AddRows : Len(positions) < MaxPositions /\ AddPosition(rec)
    \/ \E i \in 1..MaxPositions : RemovePosition(i)
    \/ \E i \in 1..MaxPositions : SelectEdit(i)
    \/ \E form \in EditRows : EditPosition(form)
    \/ \E c \in CenterInputs : SetCenter(c)
    \/ \E r \in RangeInputs : SetRange(r)
    \/ \E bs \in BSInputs : SetBSParameters(bs[1], bs[2])
    \/ \E v \in TargetInputs : AddTarget(v)
    \/ \E v \in TargetInputs : RemoveTarget(v)

Spec == Init /\ [][Next]_vars

-----------------------------------------------------------------------------------------------------------------------------------------------------
(* The drawing: the same session with no file, the forms holding any row   *)
(* of FormRows and EditFormRows, and the buttons of the file left alone.   *)

InitRender == Init /\ file = [kind |-> "absent"]

NextRender ==
    \/ \E info \in QuoteInputs : FirstRun(info)
    \/ \E rec \in FormRows : Len(positions) < MaxDrawn /\ AddPosition(rec)
    \/ \E i \in 1..MaxDrawn : RemovePosition(i)
    \/ \E i \in 1..MaxDrawn : SelectEdit(i)
    \/ \E form \in EditFormRows : EditPosition(form)
    \/ \E c \in CenterInputs : SetCenter(c)
    \/ \E r \in RangeInputs : SetRange(r)

SpecRender == InitRender /\ [][NextRender]_vars

-----------------------------------------------------------------------------
(* Saving and loading, from sessions that hold any rows of the forms and   *)
(* any file.                                                               *)

InitStore ==
    /\ phase = "ready"
    /\ fetched = Some(17000)
    /\ tse_index_price = Some(17000)
    /\ center_price = Some(17000)
    /\ positions \in {<<row>> : row \in FormRows}
                    \cup {<<MicroA, row>> : row \in FormRows}
    /\ target_prices = <<>>
    /\ edit_index = 0
    /\ \E bs \in BSInputs \cup {<<DEFAULT_DAYS, DEFAULT_RATE>>} :
          days_to_expiry = bs[1] /\ risk_free_rate = bs[2]
    /\ center_input \in {Some(17000)} \cup {Some(c) : c \in CenterInputs}
    /\ price_range = DEFAULT_RANGE
    /\ file \in FileInputs
    /\ msg = ""
    /\ positions_index = RangeIndex(Len(positions))
    /\ bs_call = NoCall

NextStore ==
    \/ LoadButton
    \/ \E written \in BOOLEAN, truncated \in BOOLEAN : SaveButton(written, truncated)

SpecStore == InitStore /\ [][NextStore]_vars

-----------------------------------------------------------------------------
(* black_scholes_model as a function: one call with any arguments.         *)

SpotInputs == {0, 10000, 17000}
StrikeArgs == {-100, 0, 10000, 17000}
DaysInputs == {0, 6}
VolatilityInputs == {0, 20}
TypeInputs == {"call", "put", ""}
\* values of the closed form: below zero by rounding, zero, below and above
\* the intrinsic values of the arguments
ClosedFormInputs == {<<-1, 0>>, <<0, -1>>, <<0, 0>>, <<50, 0>>, <<7000, 0>>, <<7000, 1>>}

BSArgs == SpotInputs \X StrikeArgs \X DaysInputs \X VolatilityInputs
          \X TypeInputs \X ClosedFormInputs

InitBS ==
    /\ NewSession
    /\ file = [kind |-> "absent"]
    /\ bs_call \in {[args |-> a, result |-> <<>>] : a \in BSArgs}

BSCall ==
    /\ bs_call.args # <<>>
    /\ bs_call.result = <<>>
    /\ bs_call' = [bs_call EXCEPT !.result =
                      Some(black_scholes_model(bs_call.args[1], bs_call.args[2],
                                               bs_call.args[3], bs_call.args[4],
                                               bs_call.args[5], bs_call.args[6]))]
    /\ UNCHANGED <<phase, fetched, tse_index_price, center_price, positions,
                   positions_index, target_prices, edit_index, days_to_expiry,
                   risk_free_rate, center_input, price_range, file, msg>>

NextBS == BSCall

SpecBS == InitBS /\ [][NextBS]_vars

-----------------------------------------------------------------------------
(* Claims C1-C5: the payoff, the two curves and the price sweep. *)

ClaimedIntrinsic(opt_type, price, strike) ==
    IF opt_type = "call" THEN Max(0, price - strike) ELSE Max(0, strike - price)

ClaimedProfit(row, price) ==
    LET payoff == IF row.product = "micro" THEN price
                  ELSE ClaimedIntrinsic(row.opt_type, price, Val(row.strike))
        sign == IF row.direction = "buy" THEN 1 ELSE -1
        multiplier == IF row.product = "micro" THEN 10 ELSE 50
    IN  (payoff - row.entry) * sign * row.lots * multiplier

\* C1: for every position of the session and every price of the sweep,
\* profit_for_row_at_price is (payoff - entry) x sign x lots x multiplier, with
\* payoff the price (micro) or the intrinsic value (option), sign +1 for buy
\* and -1 for sell, multiplier 10 for micro and 50 for an option.
C1_ProfitFormula ==
    \A i \in 1..Len(positions), k \in 1..Len(prices) :
        profit_for_row_at_price(positions[i], prices[k])
            = ClaimedProfit(positions[i], prices[k])

\* a micro row and a sold call that is in the money at a price of the sweep
C1_Witness ==
    /\ \E i \in 1..Len(positions) : positions[i].product = "micro"
    /\ \E i \in 1..Len(positions), k \in 1..Len(prices) :
          /\ positions[i].product = "option"
          /\ positions[i].opt_type = "call"
          /\ positions[i].direction = "sell"
          /\ prices[k] > Val(positions[i].strike)

\* the sum of the payoff of the rows 1..n of df whose strategy is name
RECURSIVE RowsSum(_, _, _, _)
RowsSum(df, name, p, n) ==
    IF n = 0 THEN 0
    ELSE RowsSum(df, name, p, n - 1)
         + (IF df[n].strategy = name THEN profit_for_row_at_price(df[n], p) ELSE 0)

\* a step that adds, edits or removes a row of bucket name (the length of
\* the list tells the three kinds of step apart)
ChangesBucket(name) ==
    \/ /\ Len(positions') = Len(positions) + 1
       /\ \E rec \in FormRows : rec.strategy = name /\ AddPosition(rec)
    \/ /\ Len(positions') = Len(positions) - 1
       /\ \E i \in 1..Len(positions) : positions[i].strategy = name /\ RemovePosition(i)
    \/ /\ Len(positions') = Len(positions)
       /\ edit_index + 1 \in 1..Len(positions)
       /\ positions[edit_index + 1].strategy = name
       /\ \E form \in EditFormRows : form.strategy = name /\ EditPosition(form)

\* the curve of bucket name is the same before and after the step, at the
\* prices of the sweep before it and at the prices of the sweep after it
SameCurve(name) ==
    \A sweep \in {prices, prices'} :
        curve(positions', name, sweep) = curve(positions, name, sweep)

option_rows == SelectSeq(positions, LAMBDA r : r.product = "option")

\* C3: the intrinsic value of an option is max(0, price - strike) for a call
\* and max(0, strike - price) for a put, in profit_for_row_at_price at every
\* price of the sweep and in black_scholes_model at the center price, and is
\* never negative.
C3_Intrinsic ==
    /\ \A i \in 1..Len(option_rows), k \in 1..Len(prices) :
          LET row == option_rows[i]
              intrinsic == ClaimedIntrinsic(row.opt_type, prices[k], Val(row.strike))
          IN  /\ intrinsic >= 0
              /\ profit_for_row_at_price(row, prices[k])
                   = (IF row.direction = "buy" THEN intrinsic - row.entry
                      ELSE row.entry - intrinsic) * row.lots * 50
    /\ \A i \in 1..Len(option_rows) :
          /\ bs_table[i] = Micro(ClaimedIntrinsic(option_rows[i].opt_type,
                                                  Val(center_input),
                                                  Val(option_rows[i].strike)))
          /\ MNonNeg(bs_table[i])

\* C4: the sweep starts at center - range, goes on in steps of 100 and ends
\* at center + range, for every range >= 100.
C4_SweepCoversRange ==
    positions # <<>> =>
        /\ price_range >= 100
        /\ prices[1] = Val(center_input) - price_range
        /\ \A k \in 1..(Len(prices) - 1) : prices[k + 1] - prices[k] = 100
        /\ prices[Len(prices)] = Val(center_input) + price_range

\* C5: whenever center + d is a price of the sweep, center - d is one too.
C5_SweepCentered ==
    positions # <<>> =>
        \A k \in 1..Len(prices) : \E j \in 1..Len(prices) :
            prices[j] - Val(center_input) = Val(center_input) - prices[k]

-----------------------------------------------------------------------------
(* Claims C6-C10: the file buttons and the index price. *)

C7_IndexNeverUnset ==
    phase = "ready" =>
        /\ tse_index_price # None
        /\ center_price # None
        /\ fetched = None => tse_index_price = Some(10000)
        /\ fetched # None => tse_index_price = fetched /\ Val(fetched) > 1000

\* the fetch failed, and a save and a clear followed
C7_Witness ==
    /\ phase = "ready"
    /\ fetched = None
    /\ tse_index_price = Some(10000)
    /\ msg = "cleared"
    /\ file.kind = "dict" /\ {"positions", "center_price"} \subseteq DOMAIN file
    /\ file.center_price = Some(9950)

\* no file, a file that cannot be read or parsed, or JSON that is neither a
\* list nor a dict with a 'positions' key
FileUnusable(f) ==
    \/ f.kind \in {"absent", "corrupt", "other"}
    \/ f.kind = "dict" /\ "positions" \notin DOMAIN f
    \/ /\ "positions" \in DOMAIN f
       /\ \E i \in 1..Len(f.positions) :
             ~({"lots", "entry"} \subseteq DOMAIN f.positions[i])

LoadMessages == {"loaded_with_center", "loaded_defaults", "not_found"}

\* C8: when the file is unusable load_positions returns four None and the
\* load button leaves the positions, the center price, the days-to-expiry,
\* the risk-free rate, the edit index and the target prices unchanged.
C8_FailedLoad ==
    [][(msg' \in LoadMessages /\ FileUnusable(file)) =>
        /\ load_positions(file) = <<None, None, None, None>>
        /\ msg' = "not_found"
        /\ positions' = positions
        /\ center_price' = center_price
        /\ days_to_expiry' = days_to_expiry
        /\ risk_free_rate' = risk_free_rate
        /\ edit_index' = edit_index
        /\ target_prices' = target_prices]_vars

\* a failed load in a session that holds rows, a target price, changed BS
\* parameters and a chosen edit index
C8_Witness ==
    /\ msg = "not_found"
    /\ FileUnusable(file)
    /\ Len(positions) = 2
    /\ target_prices # <<>>
    /\ days_to_expiry # DEFAULT_DAYS
    /\ edit_index = 1

\* C9: after a load from a file without a center price the positions are
\* the file's and the center price is the index price, the days-to-expiry 6
\* and the risk-free rate 0.015.
C9_LoadWithoutCenter ==
    msg = "loaded_defaults" =>
        /\ Some(positions) = load_positions(file)[1]
        /\ center_price = tse_index_price
        /\ days_to_expiry = 6
        /\ risk_free_rate = 15

\* C10: the clear button leaves the list empty, the edit index -1, the
\* target prices empty, the center price at the index price, the
\* days-to-expiry 6 and the risk-free rate 0.015, and changes neither the
\* file nor the index price.
C10_Clear ==
    [][msg' = "cleared" =>
        /\ positions' = <<>>
        /\ edit_index' = -1
        /\ target_prices' = <<>>
        /\ center_price' = tse_index_price
        /\ days_to_expiry' = 6
        /\ risk_free_rate' = 15
        /\ file' = file
        /\ tse_index_price' = tse_index_price]_vars

\* a clear after a save with a typed center price and changed BS parameters
C10_Witness ==
    /\ msg = "cleared"
    /\ positions = <<>>
    /\ file.kind = "dict" /\ {"positions", "center_price"} \subseteq DOMAIN file
    /\ file.center_price = Some(9950)
    /\ file.days_to_expiry = 7 /\ file.risk_free_rate = 20
    /\ center_price = tse_index_price

\* C11: a press of save with an empty list writes nothing, leaves the session
\* state unchanged and shows the message that there are no positions to
\* save; a press with a non-empty list whose write succeeds shows the success
\* message and makes the session's center price the one that was written.
C11_Save ==
    [][\A written, truncated \in BOOLEAN :
          SaveButton(written, truncated) =>
             /\ positions = <<>> =>
                   /\ file' = file
                   /\ UNCHANGED <<center_price, positions, target_prices, edit_index,
                                  days_to_expiry, risk_free_rate, tse_index_price>>
                   /\ msg' = "nothing_to_save"
             /\ (positions # <<>> /\ written) =>
                   /\ msg' = "saved"
                   /\ file'.kind = "dict"
                   /\ center_price' = file'.center_price]_vars

\* C13: every call of black_scholes_model returns a price >= 0, an intrinsic
\* value >= 0 and a time value >= 0 equal to max(0, price - intrinsic); with
\* a time to expiry <= 1e-6 years or a volatility <= 1e-6 it returns the
\* intrinsic value as the price and a time value of 0.
C13_BSNonNegative ==
    bs_call.result # <<>> =>
        LET out == Val(bs_call.result)
            days == bs_call.args[3]
            volatility == bs_call.args[4]
        IN  /\ ~out.raised
            /\ MNonNeg(out.price)
            /\ MNonNeg(out.intrinsic)
            /\ MNonNeg(out.time_value)
            /\ out.time_value = MMax0(MSub(out.price, out.intrinsic))
            /\ bs_degenerate(days, volatility) =>
                  /\ out.price = out.intrinsic
                  /\ out.time_value = Micro(0)

\* what the add form leaves alone, but for the edit index
AddFrame(rec) ==
    /\ Len(positions') = Len(positions) + 1
    /\ \A k \in 1..Len(positions) : positions'[k] = positions[k]
    /\ LET new == positions'[Len(positions')]
       IN  /\ new.strategy = rec.strategy
           /\ new.product = rec.product
           /\ new.direction = rec.direction
           /\ new.lots = rec.lots
           /\ new.entry = rec.entry
    /\ center_price' = center_price
    /\ days_to_expiry' = days_to_expiry
    /\ risk_free_rate' = risk_free_rate
    /\ target_prices' = target_prices

\* C14 as stated: a submitted add form appends exactly one record holding
\* the selected strategy, product, direction, lots and entry price, leaves
\* every existing record and their order unchanged, and leaves the center
\* price, the BS parameters, the edit index and the target prices unchanged.
C14_AddOriginal ==
    [][\A rec \in AddRows :
          AddPosition(rec) => AddFrame(rec) /\ edit_index' = edit_index]_vars

\* C14 as amended: the same, but the edit index is unchanged only when it
\* names a row; an edit index of -1 (no row) becomes 0, the first row, in the
\* run that follows the add.
C14_Add ==
    [][\A rec \in AddRows :
          AddPosition(rec) =>
             /\ AddFrame(rec)
             /\ edit_index' = IF edit_index = -1 THEN 0 ELSE edit_index]_vars

\* a second row was added below the row the edit index names, with a target
\* price set and the BS parameters changed
C14_Witness ==
    /\ positions = <<MicroA, CallB>>
    /\ edit_index = 0
    /\ target_prices # <<>>
    /\ days_to_expiry = 7
    /\ msg = ""

\* C15: a press of remove on row i deletes exactly that row (the list is one
\* row shorter, the other rows keep their contents and their order), and in
\* every reachable state the indices of the rows are exactly 0..n-1.
C15_Remove ==
    /\ [](positions_index = [k \in 1..Len(positions) |-> k - 1])
    /\ [][\A i \in 1..MaxPositions :
            RemovePosition(i) =>
               /\ Len(positions') = Len(positions) - 1
               /\ \A k \in 1..Len(positions') :
                     positions'[k] = IF k < i THEN positions[k] ELSE positions[k + 1]]_vars

\* one row is left of two, with the edit index still naming the second row,
\* in a session that never had a file to load
C15_Witness ==
    /\ file.kind = "absent"
    /\ positions = <<CallB>>
    /\ positions_index = <<0>>
    /\ edit_index = 1

====
